---- MODULE Spec2Model ----
(***************************************************************************)
(* Model of the EvossBE admin backend: the Basic-auth guard, the zod body  *)
(* schema, the local (disk) and remote (GitHub contents API) config stores *)
(* and the GET / PUT handlers of /admin/auth/secret/config.                *)
(*                                                                         *)
(* A JavaScript string is the sequence of its UTF-16 code units, a Buffer  *)
(* or a file the sequence of its bytes, so that split, UTF-8, base64 and   *)
(* the JSON text conversions are computed, not assumed.                    *)
(***************************************************************************)
EXTENDS Integers, Sequences, FiniteSets, TLC

VARIABLES
  creds,        \* ADMIN_CREDENTIALS: username -> password (fixed at start-up)
  ghConfigured, \* GITHUB_TOKEN && GITHUB_OWNER && GITHUB_REPO
  disk,         \* CONFIG_FOLDER: page key -> the file's bytes, or Missing
  remote,       \* remote repository: page key -> the blob's bytes, or Missing
  req,          \* request slot -> state of the handler running in it
  started,      \* number of requests that have arrived so far
  lastPut,      \* history: key -> the commit=false PUT whose write is the last event on the file, or NoPut
  hist,         \* history: key -> [commits, clean, raced] (see PutArrives, GhPut, Write)
  authIn,       \* auth check: the Authorization header tried last
  authOut       \* auth check: what authGuard did with it

vars == <<creds, ghConfigured, disk, remote, req, started, lastPut, hist, authIn, authOut>>

(***************************************************************************)
(* Characters and strings                                                  *)
(***************************************************************************)
\* The code of each character the model writes.
Code ==
  " " :> 32 @@ ":" :> 58 @@ "=" :> 61 @@ "!" :> 33 @@ "\"" :> 34 @@
  "[" :> 91 @@ "]" :> 93 @@ "{" :> 123 @@ "}" :> 125 @@ "," :> 44 @@
  "\n" :> 10 @@ "\t" :> 9 @@ "+" :> 43 @@ "/" :> 47 @@ "-" :> 45 @@ "_" :> 95 @@
  "." :> 46 @@ "\\" :> 92 @@
  "0" :> 48 @@ "1" :> 49 @@ "2" :> 50 @@ "3" :> 51 @@ "4" :> 52 @@
  "5" :> 53 @@ "6" :> 54 @@ "7" :> 55 @@ "8" :> 56 @@ "9" :> 57 @@
  "B" :> 66 @@ "E" :> 69 @@ "G" :> 71 @@ "I" :> 73 @@ "L" :> 76 @@
  "O" :> 79 @@ "P" :> 80 @@ "S" :> 83 @@ "a" :> 97 @@ "b" :> 98 @@
  "c" :> 99 @@ "d" :> 100 @@ "e" :> 101 @@ "f" :> 102 @@ "g" :> 103 @@
  "h" :> 104 @@ "i" :> 105 @@ "k" :> 107 @@ "l" :> 108 @@ "m" :> 109 @@
  "n" :> 110 @@ "o" :> 111 @@ "p" :> 112 @@ "q" :> 113 @@ "r" :> 114 @@
  "s" :> 115 @@ "t" :> 116 @@ "u" :> 117 @@ "v" :> 118 @@ "w" :> 119 @@
  "x" :> 120 @@ "y" :> 121

\* The string whose characters are the one-character strings of tuple t.
S(t) == [i \in 1..Len(t) |-> Code[t[i]]]

\* JavaScript values: undefined, and strings.
Undefined == [t |-> "undefined"]
Str(s) == [t |-> "string", v |-> s]

\* The first position from i on at which s has no element passing Test
\* (Len(s) + 1 when all pass).
Span(s, i, Test(_)) ==
  CHOOSE j \in i..(Len(s) + 1) :
    /\ j = Len(s) + 1 \/ ~Test(s[j])
    /\ \A k \in i..(j - 1) : Test(s[k])

\* The concatenation of the sequences ss[lo], ..., ss[hi].
RECURSIVE ConcatRange(_, _, _)
ConcatRange(ss, lo, hi) ==
  IF lo > hi THEN <<>>
  ELSE IF lo = hi THEN ss[lo]
  ELSE LET mid == (lo + hi) \div 2
       IN ConcatRange(ss, lo, mid) \o ConcatRange(ss, mid + 1, hi)

Concat(ss) == ConcatRange(ss, 1, Len(ss))

\* String.prototype.split(sep) for a one-character separator: the pieces
\* between the occurrences of sep (always at least one piece).
Split(s, sep) ==
  LET at == {i \in 1..Len(s) : s[i] = sep}
      \* the position of the n-th separator; 0 and Len(s) + 1 bound the text
      cut(n) == IF n = 0 THEN 0
                ELSE IF n > Cardinality(at) THEN Len(s) + 1
                ELSE CHOOSE p \in at : Cardinality({x \in at : x < p}) = n - 1
  IN [n \in 1..(Cardinality(at) + 1) |-> SubSeq(s, cut(n - 1) + 1, cut(n) - 1)]

\* Array destructuring [a, b] = parts: element n, or undefined when absent.
Nth(parts, n) == IF n <= Len(parts) THEN Str(parts[n]) ELSE Undefined

(***************************************************************************)
(* UTF-8                                                                   *)
(***************************************************************************)
IsContinuation(b) == b >= 128 /\ b <= 191

\* The bounds of the byte that may follow lead byte b, for the leads whose
\* second byte is restricted.
SecondLow(b) == IF b = 224 THEN 160 ELSE IF b = 240 THEN 144 ELSE 128
SecondHigh(b) == IF b = 237 THEN 159 ELSE IF b = 244 THEN 143 ELSE 191

\* The number of bytes of the sequence lead byte b announces (0: b cannot
\* start a sequence).
Utf8Need(b) ==
  IF b < 128 THEN 1
  ELSE IF b >= 194 /\ b <= 223 THEN 2
  ELSE IF b >= 224 /\ b <= 239 THEN 3
  ELSE IF b >= 240 /\ b <= 244 THEN 4
  ELSE 0

\* The number of bytes from position i that form a sequence or the longest
\* valid start of one (at least 1).
Utf8Have(b, i) ==
  LET need == Utf8Need(b[i])
      ok2 == i + 1 <= Len(b) /\ b[i + 1] >= SecondLow(b[i])
             /\ b[i + 1] <= SecondHigh(b[i])
      ok3 == ok2 /\ i + 2 <= Len(b) /\ IsContinuation(b[i + 2])
      ok4 == ok3 /\ i + 3 <= Len(b) /\ IsContinuation(b[i + 3])
  IN IF need <= 1 THEN 1
     ELSE IF ~ok2 THEN 1
     ELSE IF need = 2 THEN 2
     ELSE IF ~ok3 THEN 2
     ELSE IF need = 3 THEN 3
     ELSE IF ~ok4 THEN 3
     ELSE 4

\* The UTF-16 code units of code point cp.
Utf16Units(cp) ==
  IF cp < 65536 THEN <<cp>>
  ELSE <<55296 + (cp - 65536) \div 1024, 56320 + ((cp - 65536) % 1024)>>

\* The code units the bytes from position i decode to: the character of a
\* complete sequence, U+FFFD for a byte that starts none and for a sequence
\* that is cut off.
Utf8Char(b, i) ==
  LET need == Utf8Need(b[i])
      have == Utf8Have(b, i)
  IN IF need = 0 \/ have < need THEN <<65533>>
     ELSE IF need = 1 THEN <<b[i]>>
     ELSE IF need = 2 THEN <<(b[i] - 192) * 64 + (b[i + 1] - 128)>>
     ELSE IF need = 3
       THEN <<(b[i] - 224) * 4096 + (b[i + 1] - 128) * 64 + (b[i + 2] - 128)>>
     ELSE Utf16Units((b[i] - 240) * 262144 + (b[i + 1] - 128) * 4096
                     + (b[i + 2] - 128) * 64 + (b[i + 3] - 128))

\* Buffer.toString('utf8'), readFile(path, 'utf8'): the text of bytes b from
\* position i on.
RECURSIVE Utf8From(_, _)
Utf8From(b, i) ==
  IF i > Len(b) THEN <<>>
  ELSE LET j == Span(b, i, LAMBDA c : c < 128)
       IN IF j > i THEN SubSeq(b, i, j - 1) \o Utf8From(b, j)
          ELSE Utf8Char(b, i) \o Utf8From(b, i + Utf8Have(b, i))

Utf8ToString(b) == Utf8From(b, 1)


\* Whether the code unit at i is the first half of a surrogate pair.
PairStartsAt(s, i) ==
  s[i] \in 55296..56319 /\ i < Len(s) /\ s[i + 1] \in 56320..57343

\* The bytes of code point cp.
Utf8Bytes(cp) ==
  IF cp < 128 THEN <<cp>>
  ELSE IF cp < 2048 THEN <<192 + cp \div 64, 128 + (cp % 64)>>
  ELSE IF cp < 65536
    THEN <<224 + cp \div 4096, 128 + ((cp \div 64) % 64), 128 + (cp % 64)>>
  ELSE <<240 + cp \div 262144, 128 + ((cp \div 4096) % 64),
         128 + ((cp \div 64) % 64), 128 + (cp % 64)>>

\* Buffer.from(s) / writeFile(path, s, 'utf8'): the bytes of string s; a
\* surrogate without its other half is written as U+FFFD.
Utf8Encode(s) ==
  Concat([i \in 1..Len(s) |->
    IF PairStartsAt(s, i)
      THEN Utf8Bytes(65536 + (s[i] - 55296) * 1024 + (s[i + 1] - 56320))
    ELSE IF i > 1 /\ PairStartsAt(s, i - 1) THEN <<>>
    ELSE IF s[i] \in 55296..57343 THEN Utf8Bytes(65533)
    ELSE Utf8Bytes(s[i])])

(***************************************************************************)
(* base64                                                                  *)
(***************************************************************************)
\* The character of sextet n in the standard alphabet.
B64Char(n) ==
  IF n < 26 THEN 65 + n
  ELSE IF n < 52 THEN 71 + n
  ELSE IF n < 62 THEN n - 4
  ELSE IF n = 62 THEN 43 ELSE 47

\* The sextet of character c, or -1 when c is not a base64 character
\* (Node also reads the URL-safe '-' and '_').
B64Val(c) ==
  IF c >= 65 /\ c <= 90 THEN c - 65
  ELSE IF c >= 97 /\ c <= 122 THEN c - 71
  ELSE IF c >= 48 /\ c <= 57 THEN c + 4
  ELSE IF c = 43 \/ c = 45 THEN 62
  ELSE IF c = 47 \/ c = 95 THEN 63
  ELSE -1

\* Buffer.from(bytes).toString('base64'), also the client's base64(user:pass).
Base64Encode(b) ==
  LET n == Len(b)
      at(i) == IF i <= n THEN b[i] ELSE 0
  IN [j \in 1..(4 * ((n + 2) \div 3)) |->
       LET g == 3 * ((j - 1) \div 4)
           c == (j - 1) % 4
       IN IF c = 0 THEN B64Char(at(g + 1) \div 4)
          ELSE IF c = 1 THEN B64Char((at(g + 1) % 4) * 16 + at(g + 2) \div 16)
          ELSE IF g + 2 > n THEN 61
          ELSE IF c = 2 THEN B64Char((at(g + 2) % 16) * 4 + at(g + 3) \div 64)
          ELSE IF g + 3 > n THEN 61
          ELSE B64Char(at(g + 3) % 64)]

\* The sextets of the base64 characters of s before the first '='; characters
\* outside the alphabet are skipped.
Sextets(s) ==
  LET body == SelectSeq(SubSeq(s, 1, Span(s, 1, LAMBDA c : c # 61) - 1),
                        LAMBDA c : B64Val(c) >= 0)
  IN [i \in 1..Len(body) |-> B64Val(body[i])]

\* The bytes that sextets x hold (a trailing sextet alone holds none).
BytesOf(x) ==
  [j \in 1..((Len(x) * 6) \div 8) |->
     LET i == ((j - 1) * 8) \div 6 + 1
         off == ((j - 1) * 8) % 6
     IN IF off = 0 THEN x[i] * 4 + x[i + 1] \div 16
        ELSE IF off = 2 THEN (x[i] % 16) * 16 + x[i + 1] \div 4
        ELSE (x[i] % 4) * 64 + x[i + 1]]

\* Buffer.from(s, 'base64'): never throws.
Base64Decode(s) == BytesOf(Sextets(s))

(***************************************************************************)
(* Natural numbers of any size, for the conversion of decimal texts to     *)
(* doubles: the sequence of the decimal digits, least significant first,   *)
(* without high zeros (zero is the empty sequence).                        *)
(***************************************************************************)
Reverse(s) == [i \in 1..Len(s) |-> s[Len(s) + 1 - i]]

Max(set) == CHOOSE x \in set : \A y \in set : y <= x
Min(set) == CHOOSE x \in set : \A y \in set : x <= y

\* s without the zeros at its end.
DropZerosAtEnd(s) ==
  LET nz == {i \in 1..Len(s) : s[i] # 0}
  IN IF nz = {} THEN <<>> ELSE SubSeq(s, 1, Max(nz))

\* s without the zeros at its start.
DropZerosAtStart(s) ==
  LET nz == {i \in 1..Len(s) : s[i] # 0}
  IN IF nz = {} THEN <<>> ELSE SubSeq(s, Min(nz), Len(s))

PowersOfTen ==
  <<1, 10, 100, 1000, 10000, 100000, 1000000, 10000000, 100000000, 1000000000>>

\* The digits of a natural below 2^31, least significant first.
SmallBig(n) ==
  DropZerosAtEnd([i \in 1..10 |-> (n \div PowersOfTen[i]) % 10])

\* Carry propagation over columns lo..hi of x with carry cin coming in: the
\* digits [d] and the carry going out [c]. A column may hold any integer.
RECURSIVE CarryRange(_, _, _, _)
CarryRange(x, lo, hi, cin) ==
  IF lo = hi
    THEN [d |-> <<(x[lo] + cin) % 10>>, c |-> (x[lo] + cin) \div 10]
  ELSE LET mid == (lo + hi) \div 2
           low == CarryRange(x, lo, mid, cin)
           high == CarryRange(x, mid + 1, hi, low.c)
       IN [d |-> low.d \o high.d, c |-> high.c]

\* The number whose columns are x (each below 10^9, and the number not
\* negative): ten more columns take the carry.
Carry(x) ==
  DropZerosAtEnd(CarryRange(x \o [i \in 1..10 |-> 0], 1, Len(x) + 10, 0).d)

DigitAt(a, i) == IF i >= 1 /\ i <= Len(a) THEN a[i] ELSE 0

BigAdd(a, b) ==
  Carry([i \in 1..(IF Len(a) > Len(b) THEN Len(a) ELSE Len(b)) |->
           DigitAt(a, i) + DigitAt(b, i)])

\* a * c for a natural c below 10^8.
BigMulSmall(a, c) == Carry([i \in 1..Len(a) |-> a[i] * c])

\* The sum of a[i] * b[k + 1 - i] for i in lo..hi.
RECURSIVE SumProducts(_, _, _, _, _)
SumProducts(a, b, k, lo, hi) ==
  IF lo > hi THEN 0
  ELSE IF lo = hi THEN a[lo] * b[k + 1 - lo]
  ELSE LET mid == (lo + hi) \div 2
       IN SumProducts(a, b, k, lo, mid) + SumProducts(a, b, k, mid + 1, hi)

BigMul(a, b) ==
  IF Len(a) = 0 \/ Len(b) = 0 THEN <<>>
  ELSE Carry([k \in 1..(Len(a) + Len(b) - 1) |->
                SumProducts(a, b, k,
                            IF k + 1 - Len(b) > 1 THEN k + 1 - Len(b) ELSE 1,
                            IF k < Len(a) THEN k ELSE Len(a))])

\* -1, 0, 1 as a is below, equal to, above b.
BigCmp(a, b) ==
  IF Len(a) # Len(b) THEN (IF Len(a) < Len(b) THEN -1 ELSE 1)
  ELSE LET diff == {i \in 1..Len(a) : a[i] # b[i]}
       IN IF diff = {} THEN 0
          ELSE IF a[Max(diff)] < b[Max(diff)] THEN -1 ELSE 1

\* a * 10^k
BigShift(a, k) == IF Len(a) = 0 THEN <<>> ELSE [i \in 1..k |-> 0] \o a

BigSquare(a) == BigMul(a, a)

\* b^n
RECURSIVE BigPow(_, _)
BigPow(b, n) ==
  IF n = 0 THEN <<1>>
  ELSE BigMul(BigSquare(BigPow(b, n \div 2)), IF n % 2 = 1 THEN b ELSE <<1>>)

\* a - b, for b not above a.
BigSub(a, b) == Carry([i \in 1..Len(a) |-> a[i] - DigitAt(b, i)])

\* The greatest digit x with x * unit not above r.
QuotientDigit(r, unit) ==
  CHOOSE x \in 0..9 :
    /\ BigCmp(BigMulSmall(unit, x), r) <= 0
    /\ x = 9 \/ BigCmp(BigMulSmall(unit, x + 1), r) > 0

\* The quotient digits (most significant first, acc and then those for 10^j
\* down to 10^0) and the remainder of r divided by b, the quotient of r
\* being below 10^(j+1); DivTaking, given the digit d for 10^j.
RECURSIVE DivFrom(_, _, _, _), DivTaking(_, _, _, _, _)
DivFrom(r, b, j, acc) ==
  DivTaking(r, b, j, acc, QuotientDigit(r, BigShift(b, j)))

DivTaking(r, b, j, acc, d) ==
  IF j = 0 THEN [q |-> Append(acc, d), r |-> BigSub(r, BigMulSmall(b, d))]
  ELSE DivFrom(BigSub(r, BigMulSmall(BigShift(b, j), d)), b, j - 1,
               Append(acc, d))

(***************************************************************************)
(* Doubles                                                                 *)
(*                                                                         *)
(* A double that is neither zero nor infinite is written here as its sign  *)
(* and the shortest decimal that reads back as it (the one Number's        *)
(* toString prints): digits d1..dk, d1 and dk not 0, and the position of   *)
(* the point, for the value 0.d1...dk * 10^point.                          *)
(***************************************************************************)
\* A decimal: digits (most significant first, no zero at either end) and
\* point. -1, 0, 1 as x is below, equal to, above y.
DecCmp(x, y) ==
  IF x.point # y.point THEN (IF x.point < y.point THEN -1 ELSE 1)
  ELSE LET n == IF Len(x.digits) > Len(y.digits) THEN Len(x.digits)
                ELSE Len(y.digits)
           diff == {i \in 1..n : DigitAt(x.digits, i) # DigitAt(y.digits, i)}
       IN IF diff = {} THEN 0
          ELSE IF DigitAt(x.digits, Min(diff)) < DigitAt(y.digits, Min(diff))
            THEN -1 ELSE 1

\* The decimal of the natural a * 10^e.
DecOf(a, e) ==
  [digits |-> DropZerosAtEnd(Reverse(a)), point |-> Len(a) + e]

TwoTo52 == Reverse(<<4, 5, 0, 3, 5, 9, 9, 6, 2, 7, 3, 7, 0, 4, 9, 6>>)

\* The fraction (a / b) / 2^q, t being 2^|q|.
ScaledBy(a, b, q, t) ==
  IF q >= 0 THEN [num |-> a, den |-> BigMul(b, t)]
  ELSE [num |-> BigMul(a, t), den |-> b]

ScaleTwo(a, b, q) == ScaledBy(a, b, q, BigPow(<<2>>, IF q >= 0 THEN q ELSE -q))

\* The p with 2^p <= a / b < 2^(p+1), for a / b of n digits before the
\* point: its log2 lies between n - 1 and n times log2(10) = 3.3219...
Log2Floor(a, b, n) ==
  Max({x \in (((n - 1) * 3321928) \div 1000000 - 1)
             ..((n * 3321929) \div 1000000 + 1) :
         \E f \in {ScaleTwo(a, b, x)} : BigCmp(f.den, f.num) <= 0})

\* The natural nearest (ties to even) to num / den, from the 16 quotient
\* digits and the remainder div.
Nearest(div, den) ==
  LET floor == DropZerosAtEnd(Reverse(div.q))
      half == BigCmp(BigMulSmall(div.r, 2), den)
  IN IF half > 0 \/ (half = 0 /\ div.q[16] % 2 = 1) THEN BigAdd(floor, <<1>>)
     ELSE floor

\* The natural nearest to fraction f, which is below 10^16.
Mantissa(f) == Nearest(DivFrom(f.num, f.den, 15, <<>>), f.den)

\* The double of mantissa m and exponent q, when 2^p <= value < 2^(p+1).
Packed(m, p, q) ==
  IF p > 1023 THEN [kind |-> "infinite"]
  ELSE IF Len(m) = 0 THEN [kind |-> "zero"]
  ELSE IF m = BigMulSmall(TwoTo52, 2)
    THEN (IF q + 1 > 971 THEN [kind |-> "infinite"]
          ELSE [kind |-> "finite", m |-> TwoTo52, q |-> q + 1])
  ELSE [kind |-> "finite", m |-> m, q |-> q]

RoundAt(a, b, p) ==
  LET q == IF p - 52 < -1074 THEN -1074 ELSE p - 52
  IN IF p > 1023 THEN [kind |-> "infinite"] ELSE Packed(Mantissa(ScaleTwo(a, b, q)), p, q)

\* The double nearest (ties to even) to the decimal of digits ds and point n:
\* [kind |-> "zero"], [kind |-> "infinite"], or the mantissa m and exponent
\* q of the value m * 2^q, m below 2^53, and m at least 2^52 unless
\* q = -1074.
RoundToDouble(ds, n) ==
  LET e == n - Len(ds)
      a == IF e >= 0 THEN BigShift(Reverse(ds), e) ELSE Reverse(ds)
      b == IF e >= 0 THEN <<1>> ELSE BigShift(<<1>>, -e)
  IN RoundAt(a, b, Log2Floor(a, b, n))

\* The decimal d with its digits cut after the k-th, and that plus one unit
\* of the k-th digit.
CutDown(d, k) ==
  [digits |-> DropZerosAtEnd(SubSeq(d.digits, 1, k)), point |-> d.point]

CutUp(d, k) ==
  LET head == SubSeq(d.digits, 1, k)
      not9 == {i \in 1..k : head[i] # 9}
  IN IF not9 = {} THEN [digits |-> <<1>>, point |-> d.point + 1]
     ELSE [digits |-> SubSeq(head, 1, Max(not9) - 1) \o <<head[Max(not9)] + 1>>,
           point |-> d.point]

\* The decimals of the double m4 / 4 * scale * 10^e and of the two
\* midpoints between it and its neighbours (the lower neighbour is half as
\* far from a power of two).
Around(m4, scale, e, narrow) ==
  [d |-> DecOf(BigMul(m4, scale), e),
   hi |-> DecOf(BigMul(BigAdd(m4, <<2>>), scale), e),
   lo |-> DecOf(BigMul(BigSub(m4, IF narrow THEN <<1>> ELSE <<2>>), scale), e)]

Neighbours(m, q) ==
  LET s == q - 2
  IN Around(BigMulSmall(m, 4),
            IF s >= 0 THEN BigPow(<<2>>, s) ELSE BigPow(<<5>>, -s),
            IF s >= 0 THEN 0 ELSE s,
            m = TwoTo52 /\ q > -1074)

\* A decimal between the double and a midpoint reads back as the double (a
\* midpoint itself does when the mantissa is even).
InLow(w, even, x) == IF even THEN DecCmp(w.lo, x) <= 0 ELSE DecCmp(w.lo, x) < 0
InHigh(w, even, x) == IF even THEN DecCmp(x, w.hi) <= 0 ELSE DecCmp(x, w.hi) < 0

\* Whether k digits are enough to write the double.
Fits(w, even, k) ==
  \/ k >= Len(w.d.digits)
  \/ InLow(w, even, CutDown(w.d, k))
  \/ InHigh(w, even, CutUp(w.d, k))

ShortestLength(w, even) ==
  CHOOSE x \in 1..17 : Fits(w, even, x) /\ \A y \in 1..(x - 1) : ~Fits(w, even, y)

\* The decimal of the shortest length that reads back as the double and is
\* nearest to it.
CutAt(w, even) ==
  LET d == w.d
      k == ShortestLength(w, even)
      tail == SubSeq(d.digits, k + 1, Len(d.digits))
      \* the part cut off, against half a unit of the k-th digit
      part == IF tail[1] # 5 THEN (IF tail[1] < 5 THEN -1 ELSE 1)
              ELSE IF Len(tail) > 1 THEN 1 ELSE 0
  IN IF k >= Len(d.digits) THEN d
     ELSE IF ~InHigh(w, even, CutUp(d, k)) THEN CutDown(d, k)
     ELSE IF ~InLow(w, even, CutDown(d, k)) THEN CutUp(d, k)
     ELSE IF part < 0 \/ (part = 0 /\ d.digits[k] % 2 = 0) THEN CutDown(d, k)
     ELSE CutUp(d, k)

\* The shortest decimal that the double m * 2^q is the nearest double to,
\* and among those of that length the one nearest to the double.
ShortestDecimal(m, q) == CutAt(Neighbours(m, q), m[1] % 2 = 0)
(***************************************************************************)
(* JSON: JavaScript values, JSON.parse and JSON.stringify(v, null, 2)      *)
(***************************************************************************)
JNull == [t |-> "null"]
JBool(b) == [t |-> "boolean", v |-> b]
\* A finite number that is not zero, from its sign and its decimal.
JNum(neg, dec) ==
  [t |-> "number", kind |-> "finite", neg |-> neg, digits |-> dec.digits,
   point |-> dec.point]
JZero(neg) == [t |-> "number", kind |-> "zero", neg |-> neg]
JInfinity(neg) == [t |-> "number", kind |-> "infinite", neg |-> neg]
JArr(items) == [t |-> "array", v |-> items]
\* An object: its keys in the order JavaScript enumerates them, and their
\* values.
JObj(keys, vals) == [t |-> "object", k |-> keys, v |-> vals]

Fail == [ok |-> FALSE]
Ok(val, pos) == [ok |-> TRUE, val |-> val, pos |-> pos]

IsDigit(c) == c >= 48 /\ c <= 57
IsWs(c) == c = 32 \/ c = 9 \/ c = 10 \/ c = 13

SkipWs(s, i) == Span(s, i, IsWs)

\* Whether text s holds word w at position i.
Holds(s, i, w) == i + Len(w) - 1 <= Len(s) /\ SubSeq(s, i, i + Len(w) - 1) = w

\* The digits (0..9) that the characters of s from i to j - 1 write.
DigitsFrom(s, i, j) == [x \in 1..(j - i) |-> s[i + x - 1] - 48]

\* The natural that at most 9 digits write.
SmallOf(ds) == SumProducts(ds, PowersOfTen, Len(ds), 1, Len(ds))

\* The number value of double d.
FromDouble(neg, d) ==
  IF d.kind = "finite" THEN JNum(neg, ShortestDecimal(d.m, d.q))
  ELSE IF d.kind = "zero" THEN JZero(neg)
  ELSE JInfinity(neg)

\* The number a decimal text writes: the double nearest to it. A text of at
\* most 15 digits within the range of the normal doubles is the shortest
\* decimal of its double; beyond 10^309 every text is infinite and below
\* 10^-324 every text is zero.
NumberValue(neg, int, frac, expNeg, expDigits) ==
  LET all == DropZerosAtStart(int \o frac)
      ds == DropZerosAtEnd(all)
      expSig == DropZerosAtStart(expDigits)
      expMag == IF Len(expSig) > 7 THEN 10000000 ELSE SmallOf(expSig)
      n == Len(all) - Len(frac) + (IF expNeg THEN -expMag ELSE expMag)
  IN IF Len(ds) = 0 THEN JZero(neg)
     ELSE IF n > 309 THEN JInfinity(neg)
     ELSE IF n < -323 THEN JZero(neg)
     ELSE IF Len(ds) <= 15 /\ n >= -306 /\ n <= 308
       THEN JNum(neg, [digits |-> ds, point |-> n])
     ELSE FromDouble(neg, RoundToDouble(ds, n))

\* The number whose digits start at i1, from its parts: the integer part
\* ends before intEnd, the fraction (if any) before fracEnd.
NumberFrom(s, neg, i1, intEnd, fracEnd) ==
  LET hasExp == fracEnd <= Len(s) /\ (s[fracEnd] = 101 \/ s[fracEnd] = 69)
      hasSign == hasExp /\ fracEnd + 1 <= Len(s)
                 /\ (s[fracEnd + 1] = 43 \/ s[fracEnd + 1] = 45)
      expStart == IF hasSign THEN fracEnd + 2 ELSE fracEnd + 1
      expEnd == IF hasExp THEN Span(s, expStart, IsDigit) ELSE fracEnd
  IN IF fracEnd = intEnd + 1 THEN Fail
     ELSE IF hasExp /\ expEnd = expStart THEN Fail
     ELSE Ok(NumberValue(neg, DigitsFrom(s, i1, intEnd),
                         IF fracEnd > intEnd
                         THEN DigitsFrom(s, intEnd + 1, fracEnd) ELSE <<>>,
                         hasSign /\ s[fracEnd + 1] = 45,
                         IF hasExp THEN DigitsFrom(s, expStart, expEnd) ELSE <<>>),
             expEnd)

\* The number at i: -? (0 | 1-9 digits) (. digits)? ((e|E) (+|-)? digits)?
ParseNumber(s, i) ==
  LET neg == s[i] = 45
      i1 == IF neg THEN i + 1 ELSE i
      intEnd == IF s[i1] = 48 THEN i1 + 1 ELSE Span(s, i1, IsDigit)
  IN IF i1 > Len(s) \/ ~IsDigit(s[i1]) THEN Fail
     ELSE NumberFrom(s, neg, i1, intEnd,
                     IF intEnd <= Len(s) /\ s[intEnd] = 46
                     THEN Span(s, intEnd + 1, IsDigit) ELSE intEnd)

\* The value of hexadecimal digit c, -1 when it is none.
HexVal(c) ==
  IF c >= 48 /\ c <= 57 THEN c - 48
  ELSE IF c >= 97 /\ c <= 102 THEN c - 87
  ELSE IF c >= 65 /\ c <= 70 THEN c - 55
  ELSE -1

\* The escape whose backslash is at j: [ok, unit |-> the code unit it
\* writes, pos |-> the position after it].
ParseEscape(s, j) ==
  LET c == s[j + 1]
      simple(u) == [ok |-> TRUE, unit |-> u, pos |-> j + 2]
  IN IF j + 1 > Len(s) THEN Fail
     ELSE IF c = 34 \/ c = 92 \/ c = 47 THEN simple(c)
     ELSE IF c = 98 THEN simple(8)
     ELSE IF c = 102 THEN simple(12)
     ELSE IF c = 110 THEN simple(10)
     ELSE IF c = 114 THEN simple(13)
     ELSE IF c = 116 THEN simple(9)
     ELSE IF c = 117 /\ j + 5 <= Len(s)
             /\ \A x \in 2..5 : HexVal(s[j + x]) >= 0
       THEN [ok |-> TRUE,
             unit |-> HexVal(s[j + 2]) * 4096 + HexVal(s[j + 3]) * 256
                      + HexVal(s[j + 4]) * 16 + HexVal(s[j + 5]),
             pos |-> j + 6]
     ELSE Fail

\* The rest of a string from i, acc being what was read of it so far.
RECURSIVE StringFrom(_, _, _)
StringFrom(s, i, acc) ==
  LET j == Span(s, i, LAMBDA c : c >= 32 /\ c # 34 /\ c # 92)
      read == acc \o SubSeq(s, i, j - 1)
      esc == ParseEscape(s, j)
  IN IF j > Len(s) THEN Fail
     ELSE IF s[j] = 34 THEN Ok(Str(read), j + 1)
     ELSE IF s[j] # 92 THEN Fail
     ELSE IF ~esc.ok THEN Fail
     ELSE StringFrom(s, esc.pos, Append(read, esc.unit))

\* The string opening at the quote at i.
ParseString(s, i) == StringFrom(s, i + 1, <<>>)

\* Whether key is an array index: the decimal of a natural up to 2^32 - 2,
\* written without a leading zero.
LexLess(a, b) ==
  LET diff == {i \in 1..Len(a) : a[i] # b[i]}
  IN diff # {} /\ a[Min(diff)] < b[Min(diff)]

IsArrayIndex(key) ==
  /\ Len(key) >= 1 /\ Len(key) <= 10
  /\ \A i \in 1..Len(key) : IsDigit(key[i])
  /\ Len(key) = 1 \/ key[1] # 48
  /\ Len(key) = 10 => ~LexLess(<<52, 50, 57, 52, 57, 54, 55, 50, 57, 52>>, key)

\* Whether index a is numerically below index b.
IndexBelow(a, b) == Len(a) < Len(b) \/ (Len(a) = Len(b) /\ LexLess(a, b))

\* o[key] = val on object o under construction: a repeated key keeps its
\* place and takes the later value; a new array index goes among the
\* indices, which come first in ascending order; any other new key goes last.
PutKey(o, key, val) ==
  LET n == Cardinality({j \in 1..Len(o.k) :
                          IsArrayIndex(o.k[j]) /\ IndexBelow(o.k[j], key)})
      Insert(seq, x) == SubSeq(seq, 1, n) \o <<x>> \o SubSeq(seq, n + 1, Len(seq))
  IN IF \E j \in 1..Len(o.k) : o.k[j] = key
     THEN JObj(o.k, [j \in 1..Len(o.v) |-> IF o.k[j] = key THEN val ELSE o.v[j]])
     ELSE IF IsArrayIndex(key) THEN JObj(Insert(o.k, key), Insert(o.v, val))
     ELSE JObj(Append(o.k, key), Append(o.v, val))

RECURSIVE ParseValue(_, _), ParseElements(_, _, _), ParseMembers(_, _, _)
RECURSIVE MemberValue(_, _, _), MemberEnd(_, _, _, _)
ParseValue(s, i0) ==
  LET i == SkipWs(s, i0)
  IN IF i > Len(s) THEN Fail
     ELSE IF Holds(s, i, S(<<"n","u","l","l">>)) THEN Ok(JNull, i + 4)
     ELSE IF Holds(s, i, S(<<"t","r","u","e">>)) THEN Ok(JBool(TRUE), i + 4)
     ELSE IF Holds(s, i, S(<<"f","a","l","s","e">>)) THEN Ok(JBool(FALSE), i + 5)
     ELSE IF IsDigit(s[i]) \/ s[i] = 45 THEN ParseNumber(s, i)
     ELSE IF s[i] = 34 THEN ParseString(s, i)
     ELSE IF s[i] = 91 THEN
       LET j == SkipWs(s, i + 1)
       IN IF j <= Len(s) /\ s[j] = 93 THEN Ok(JArr(<<>>), j + 1)
          ELSE ParseElements(s, j, <<>>)
     ELSE IF s[i] = 123 THEN
       LET j == SkipWs(s, i + 1)
       IN IF j <= Len(s) /\ s[j] = 125 THEN Ok(JObj(<<>>, <<>>), j + 1)
          ELSE ParseMembers(s, j, JObj(<<>>, <<>>))
     ELSE Fail

\* The elements of an array from i, after "[" or ",".
ParseElements(s, i, acc) ==
  LET r == ParseValue(s, i)
  IN IF ~r.ok THEN Fail
     ELSE LET j == SkipWs(s, r.pos)
          IN IF j > Len(s) THEN Fail
             ELSE IF s[j] = 93 THEN Ok(JArr(Append(acc, r.val)), j + 1)
             ELSE IF s[j] = 44 THEN ParseElements(s, j + 1, Append(acc, r.val))
             ELSE Fail

\* The members of an object from i, after "{" or ",", o holding the members
\* before them: the key,
ParseMembers(s, i0, o) ==
  LET i == SkipWs(s, i0)
  IN IF i > Len(s) \/ s[i] # 34 THEN Fail
     ELSE MemberValue(s, o, ParseString(s, i))

\* the colon and the value after key k,
MemberValue(s, o, k) ==
  IF ~k.ok THEN Fail
  ELSE LET c == SkipWs(s, k.pos)
       IN IF c > Len(s) \/ s[c] # 58 THEN Fail
          ELSE MemberEnd(s, o, k.val.v, ParseValue(s, c + 1))

\* and "}" or "," after the value r of key.
MemberEnd(s, o, key, r) ==
  IF ~r.ok THEN Fail
  ELSE LET j == SkipWs(s, r.pos)
       IN IF j > Len(s) THEN Fail
          ELSE IF s[j] = 125 THEN Ok(PutKey(o, key, r.val), j + 1)
          ELSE IF s[j] = 44 THEN ParseMembers(s, j + 1, PutKey(o, key, r.val))
          ELSE Fail

\* JSON.parse(text): [ok |-> TRUE, val |-> the value], or the SyntaxError
\* thrown; Whole, given the value r read at the start of the text.
Whole(s, r) ==
  IF r.ok /\ SkipWs(s, r.pos) > Len(s) THEN [ok |-> TRUE, val |-> r.val]
  ELSE [ok |-> FALSE, error |-> "SyntaxError"]

JSONparse(s) == Whole(s, ParseValue(s, 1))

\* The characters of digits ds.
DigitChars(ds) == [i \in 1..Len(ds) |-> 48 + ds[i]]

\* n times character c.
Fill(c, n) == [i \in 1..n |-> c]

\* Number::toString of a finite double that is not zero.
NumberToString(v) ==
  LET k == Len(v.digits)
      n == v.point
      ds == DigitChars(v.digits)
      e == n - 1
      text ==
        IF k <= n /\ n <= 21 THEN ds \o Fill(48, n - k)
        ELSE IF 0 < n /\ n <= 21
          THEN SubSeq(ds, 1, n) \o <<46>> \o SubSeq(ds, n + 1, k)
        ELSE IF -6 < n /\ n <= 0 THEN <<48, 46>> \o Fill(48, -n) \o ds
        ELSE <<ds[1]>> \o (IF k = 1 THEN <<>> ELSE <<46>> \o SubSeq(ds, 2, k))
             \o <<101, IF e < 0 THEN 45 ELSE 43>>
             \o DigitChars(Reverse(SmallBig(IF e < 0 THEN -e ELSE e)))
  IN (IF v.neg THEN <<45>> ELSE <<>>) \o text

HexChar(n) == IF n < 10 THEN 48 + n ELSE 87 + n

\* QuoteJSONString: s between quotes, with the quote, the backslash, the
\* control characters and the surrogates without their other half escaped.
Quote(s) ==
  <<34>> \o
  Concat([i \in 1..Len(s) |->
    LET c == s[i]
    IN IF c = 34 THEN <<92, 34>>
       ELSE IF c = 92 THEN <<92, 92>>
       ELSE IF c = 8 THEN <<92, 98>>
       ELSE IF c = 9 THEN <<92, 116>>
       ELSE IF c = 10 THEN <<92, 110>>
       ELSE IF c = 12 THEN <<92, 102>>
       ELSE IF c = 13 THEN <<92, 114>>
       ELSE IF c < 32
              \/ (c \in 55296..57343 /\ ~PairStartsAt(s, i)
                  /\ ~(i > 1 /\ PairStartsAt(s, i - 1)))
         THEN <<92, 117, HexChar(c \div 4096), HexChar((c \div 256) % 16),
                HexChar((c \div 16) % 16), HexChar(c % 16)>>
       ELSE <<c>>])
  \o <<34>>

\* The serialisation of value v at nesting depth d with an indent of 2. A
\* number that is not finite is written null. (undefined is only met at the
\* top level, see JSONstringify.)
RECURSIVE Serialize(_, _)
Serialize(v, d) ==
  CASE v.t = "null" -> S(<<"n","u","l","l">>)
    [] v.t = "boolean" ->
         IF v.v THEN S(<<"t","r","u","e">>) ELSE S(<<"f","a","l","s","e">>)
    [] v.t = "number" ->
         IF v.kind = "finite" THEN NumberToString(v)
         ELSE IF v.kind = "zero" THEN <<48>>
         ELSE S(<<"n","u","l","l">>)
    [] v.t = "string" -> Quote(v.v)
    [] v.t = "array" ->
         IF Len(v.v) = 0 THEN <<91, 93>>
         ELSE <<91, 10>>
              \o Concat([j \in 1..Len(v.v) |->
                   (IF j = 1 THEN <<>> ELSE <<44, 10>>)
                   \o Fill(32, 2 * (d + 1)) \o Serialize(v.v[j], d + 1)])
              \o <<10>> \o Fill(32, 2 * d) \o <<93>>
    [] v.t = "object" ->
         IF Len(v.k) = 0 THEN <<123, 125>>
         ELSE <<123, 10>>
              \o Concat([j \in 1..Len(v.k) |->
                   (IF j = 1 THEN <<>> ELSE <<44, 10>>)
                   \o Fill(32, 2 * (d + 1)) \o Quote(v.k[j]) \o <<58, 32>>
                   \o Serialize(v.v[j], d + 1)])
              \o <<10>> \o Fill(32, 2 * d) \o <<125>>

\* JSON.stringify(v, null, 2): a string, or undefined for undefined.
JSONstringify(v) == IF v = Undefined THEN Undefined ELSE Str(Serialize(v, 0))

\* Whether two values are deep-equal: the same structure with the same
\* leaves, the members of an object in any order.
RECURSIVE DeepEqual(_, _)
DeepEqual(x, y) ==
  IF x.t # y.t THEN FALSE
  ELSE IF x.t = "array"
    THEN Len(x.v) = Len(y.v) /\ \A j \in 1..Len(x.v) : DeepEqual(x.v[j], y.v[j])
  ELSE IF x.t = "object"
    THEN /\ Len(x.k) = Len(y.k)
         /\ \A i \in 1..Len(x.k) :
              \E j \in 1..Len(y.k) : x.k[i] = y.k[j] /\ DeepEqual(x.v[i], y.v[j])
  ELSE x = y

(***************************************************************************)
(* Credentials and the auth guard                                          *)
(***************************************************************************)
\* process.env.X || dflt: the default for a variable that is unset or empty.
EnvDefault(v, dflt) == IF v = Undefined \/ v.v = <<>> THEN dflt ELSE v.v

ProtoKey == S(<<"_","_","p","r","o","t","o","_","_">>)

\* 'admin' and 'change-me'
DefaultUser == S(<<"a","d","m","i","n">>)
DefaultPass == S(<<"c","h","a","n","g","e","-","m","e">>)

\* ADMIN_CREDENTIALS from the environment variables ADMIN_USERNAME,
\* ADMIN_PASSWORD and ADMIN_CREDENTIALS (raw): the string members of the
\* JSON object raw writes when there is one (creds['__proto__'] = pass sets
\* no member), else the single pair of ADMIN_USERNAME / ADMIN_PASSWORD.
\* CredentialsOf, given what JSON.parse made of raw.
CredentialsOf(fallback, parsed) ==
  LET kept == {j \in 1..Len(parsed.val.k) :
                 parsed.val.v[j].t = "string" /\ parsed.val.k[j] # ProtoKey}
      at(u) == CHOOSE j \in kept : parsed.val.k[j] = u
  IN IF ~parsed.ok THEN fallback
     ELSE IF parsed.val.t # "object" THEN fallback
     ELSE IF kept = {} THEN fallback
     ELSE [u \in {parsed.val.k[j] : j \in kept} |-> parsed.val.v[at(u)].v]

ADMIN_CREDENTIALS(envUser, envPass, raw) ==
  LET ENV_USERNAME == EnvDefault(envUser, DefaultUser)
      ENV_PASSWORD == EnvDefault(envPass, DefaultPass)
      fallback == [u \in {ENV_USERNAME} |-> ENV_PASSWORD]
  IN IF raw = Undefined \/ raw.v = <<>> THEN fallback
     ELSE CredentialsOf(fallback, JSONparse(raw.v))

\* The property names every object inherits from Object.prototype.
ObjectPrototypeKeys ==
  {S(<<"c","o","n","s","t","r","u","c","t","o","r">>),
   S(<<"t","o","S","t","r","i","n","g">>),
   S(<<"t","o","L","o","c","a","l","e","S","t","r","i","n","g">>),
   S(<<"v","a","l","u","e","O","f">>),
   S(<<"h","a","s","O","w","n","P","r","o","p","e","r","t","y">>),
   S(<<"i","s","P","r","o","t","o","t","y","p","e","O","f">>),
   S(<<"p","r","o","p","e","r","t","y","I","s","E","n","u","m","e","r","a","b","l","e">>),
   ProtoKey,
   S(<<"_","_","d","e","f","i","n","e","G","e","t","t","e","r","_","_">>),
   S(<<"_","_","d","e","f","i","n","e","S","e","t","t","e","r","_","_">>),
   S(<<"_","_","l","o","o","k","u","p","G","e","t","t","e","r","_","_">>),
   S(<<"_","_","l","o","o","k","u","p","S","e","t","t","e","r","_","_">>)}

\* ADMIN_CREDENTIALS[user]: the stored password, an inherited property (no
\* string) for a name of Object.prototype, undefined otherwise.
Lookup(c, user) ==
  IF user.t = "string" /\ user.v \in DOMAIN c THEN Str(c[user.v])
  ELSE IF user.t = "string" /\ user.v \in ObjectPrototypeKeys
    THEN [t |-> "inherited"]
  ELSE Undefined

\* ADMIN_CREDENTIALS[user] === pass
CredentialsMatch(c, user, pass) == Lookup(c, user) = pass

\* authGuard: "next" when the handler is run, "401" otherwise.
authGuard(c, header) ==
  LET h == IF header = Undefined THEN <<>> ELSE header.v
      parts == Split(h, 32)
      scheme == Nth(parts, 1)
      encoded == Nth(parts, 2)
  IN IF scheme # Str(S(<<"B","a","s","i","c">>))
        \/ encoded = Undefined \/ encoded = Str(<<>>)
     THEN "401"
     ELSE LET decoded == Utf8ToString(Base64Decode(encoded.v))
              up == Split(decoded, 58)
              user == Nth(up, 1)
              pass == Nth(up, 2)
          IN IF CredentialsMatch(c, user, pass) THEN "next" ELSE "401"

(***************************************************************************)
(* Configuration, stores and the body schema                               *)
(***************************************************************************)
PAGE_KEYS == {"home", "services", "products", "get-started", "contact"}

\* A page name as it arrives in a query or body (a JavaScript string).
Key(name) == [t |-> "string", v |-> name]

\* A file of the local store or a blob of the remote store: its bytes.
File(bytes) == [t |-> "file", v |-> bytes]
Missing == [t |-> "missing"]

\* req.query.file || 'home'
QueryKey(file) == IF file = Undefined \/ file = Key("") THEN "home" ELSE file.v

\* updateSchema.parse(body): z.any() takes every content, an absent one too
\* (it stays undefined); commit and file take their defaults when absent.
ZodCommit(commit) ==
  IF commit = Undefined THEN [ok |-> TRUE, v |-> FALSE]
  ELSE IF commit.t = "boolean" THEN [ok |-> TRUE, v |-> commit.v]
  ELSE [ok |-> FALSE]

ZodCommitMessage(m) == m = Undefined \/ m.t = "string"

ZodFile(file) ==
  IF file = Undefined THEN [ok |-> TRUE, v |-> "home"]
  ELSE IF file.t = "string" /\ file.v \in PAGE_KEYS THEN [ok |-> TRUE, v |-> file.v]
  ELSE [ok |-> FALSE]

updateSchema(body) ==
  LET k == ZodCommit(body.commit)
      f == ZodFile(body.file)
  IN IF k.ok /\ f.ok /\ ZodCommitMessage(body.commitMessage)
     THEN [ok |-> TRUE, content |-> body.content, commit |-> k.v, file |-> f.v]
     ELSE [ok |-> FALSE,
           fields |-> (IF k.ok THEN {} ELSE {"commit"})
                      \cup (IF f.ok THEN {} ELSE {"file"})
                      \cup (IF ZodCommitMessage(body.commitMessage)
                            THEN {} ELSE {"commitMessage"})]

\* express.json(): the body's content member as JSON.parse read it, or
\* undefined when the body has none.
BodyContent(text) == IF text = Undefined THEN Undefined ELSE JSONparse(text.v).val

\* fs.promises.readFile reads a file of unknown size (fstat gave 0) 64 KiB
\* at a time, any other one in reads of the size fstat gave, at most 512 KiB
\* each; fs.promises.writeFile writes at most 512 KiB with each write call.
\* A read call takes the file's bytes a page (4 KiB) at a time.
kReadFileUnknownBufferLength == 65536
kReadFileBufferLength == 524288
kWriteFileMaxChunkSize == 524288
kPageSize == 4096

\* readFromDisk(page), readFile having read these bytes: [ok, val] or
\* [ok, error].
readFromDisk(bytes) == JSONparse(Utf8ToString(bytes))

\* write(fd, bytes) with the descriptor at offset pos: the bytes go there,
\* what the file held beside them stays, and a gap before them (the file
\* having been emptied since the descriptor got there) reads as zero bytes.
DiskAfterWriteSkipped(d, page, pos, bytes) == d

DiskAfterWrite(d, page, pos, bytes) ==
  [d EXCEPT ![page] =
     File([i \in 1..Max({Len(@.v), pos + Len(bytes)}) |->
             IF i > pos /\ i <= pos + Len(bytes) THEN bytes[i - pos]
             ELSE IF i <= Len(@.v) THEN @.v[i] ELSE 0])]

\* The remote store's revision marker of a file: an identifier of its content
\* (a blob hash), undefined when the file does not exist.
Marker(f) == IF f = Missing THEN Undefined ELSE Str(f.v)

\* The remote store's answer to GET contents: the file, base64-encoded, with
\* its marker; not ok when the file is absent or the store answers an error.
RemoteGet(f, served) ==
  IF served /\ f # Missing
  THEN [ok |-> TRUE, sha |-> Marker(f), content |-> Base64Encode(f.v)]
  ELSE [ok |-> FALSE]

\* The remote store's conflict rule for PUT contents: the marker supplied
\* must be the current one (none for a file that does not exist).
RemoteAccepts(f, sha) == sha = Marker(f)

\* How a call to the remote store ends: answered as the store decides,
\* answered with an error status whatever the store holds, or not answered
\* (fetch rejects).
NetOutcomes == {"ok", "status", "down"}

\* readFromGitHub(page) up to its fetch, given how the call ended and the
\* remote's answer: the error thrown, or none.
readFromGitHub(configured, net, response) ==
  IF ~configured THEN [ok |-> FALSE, error |-> "GitHub variables missing"]
  ELSE IF net = "down" THEN [ok |-> FALSE, error |-> "fetch failed"]
  ELSE IF ~response.ok THEN [ok |-> FALSE, error |-> "GitHub read failed"]
  ELSE [ok |-> TRUE]

\* readFromGitHub(page) from response.json() on: the body could not be read,
\* or its content is decoded and parsed.
DecodeRemote(response, bodyOk) ==
  IF ~bodyOk THEN [ok |-> FALSE, error |-> "terminated"]
  ELSE JSONparse(Utf8ToString(Base64Decode(response.content)))

\* commitToGitHub: the sha taken from the GET's answer.
ShaOfGetNone(getResponse) == Undefined

ShaOfGet(getResponse) == IF getResponse.ok THEN getResponse.sha ELSE Undefined

\* commitToGitHub: the content member of the PUT body, from the text
\* JSON.stringify(payload, null, 2) (Buffer.from throws on undefined, see
\* SendPut).
PutContent(text) == Str(Base64Encode(Utf8Encode(text.v)))

(***************************************************************************)
(* Requests                                                                *)
(***************************************************************************)
Reqs == {1, 2}
MaxRequests == 2

NoPut == [doc |-> Undefined, id |-> 0, done |-> FALSE]
NoResponse == [ok |-> FALSE]

\* A request slot (of a request the guard let through: one it turned away
\* keeps only its method). id is the request's serial number, file the page
\* name as the request gave it, key the page it resolved to, doc the content
\* text of the body, resp the remote store's answer whose body the handler
\* has yet to read, sha the marker the commit carries, put the content of
\* the PUT body it built, next the text writeToDisk is writing, pos the
\* offset of the descriptor writeFile writes through; size is the file's
\* size as fstat gave it to readFile, buf the bytes readFile has read, part
\* the bytes the read call in flight has taken so far, err the error
\* readFile or writeFile is to throw once it has closed the file.
\* The fields from ops on record what the handler did: the store operations
\* it began, in order; for a read, the PUT whose write was the last one
\* both when the read arrived and when it ended, and the file as it was
\* (held) when the read took its bytes; for a commit, whether its GET found
\* the file, the remote's marker at its GET and at its PUT, whether another
\* commit to its key was applied between the two, and whether its PUT was
\* answered with success; how its local write ended.
Idle ==
  [pc |-> "idle", id |-> 0, method |-> "-", file |-> Undefined, key |-> "-",
   doc |-> Undefined, commit |-> FALSE, resp |-> NoResponse,
   sha |-> Undefined, put |-> Undefined, next |-> Undefined, pos |-> 0,
   size |-> 0, buf |-> <<>>, part |-> <<>>, err |-> Undefined,
   held |-> Undefined,
   status |-> 0, body |-> [none |-> TRUE],
   ops |-> <<>>, seen |-> NoPut, getFound |-> FALSE, getMarker |-> Undefined,
   putMarker |-> Undefined, interfered |-> FALSE, putOk |-> FALSE,
   localWrite |-> "-"]

\* res.status(status).json(body)
Respond(q, status, body) ==
  [q EXCEPT !.pc = "done", !.status = status, !.body = body,
            !.resp = NoResponse, !.put = Undefined, !.next = Undefined,
            !.pos = 0, !.size = 0, !.buf = <<>>, !.part = <<>>,
            !.err = Undefined, !.held = Undefined]

\* A request takes the first slot with no handler in flight.
Free(r) ==
  /\ req[r].pc \in {"idle", "done"}
  /\ \A o \in Reqs : o < r => req[o].pc \notin {"idle", "done"}
  /\ started < MaxRequests

InFlight(r) == req[r].pc \notin {"idle", "done"}

\* The documents clients send, as JSON texts: 12 and 1e999; and the
\* document 7 of a file there at the start.
DocA == S(<<"1", "2">>)
DocB == S(<<"1", "e", "9", "9", "9">>)
DocC == S(<<"7">>)

\* A file that is not JSON (cut short).
Corrupt == File(S(<<"{", "\n", " ", " ", "\"", "a">>))

\* The file writeToDisk and commitToGitHub store for document text d.
Stored(d) == File(Utf8Encode(JSONstringify(JSONparse(d).val).v))

\* The document a stored file holds.
DocOf(f) ==
  IF f = Missing THEN [ok |-> FALSE] ELSE JSONparse(Utf8ToString(f.v))

\* 'Basic ' + base64(text)
BasicOf(text) ==
  Str(S(<<"B","a","s","i","c"," ">>) \o Base64Encode(Utf8Encode(text)))

\* 'Basic ' + base64(user + ':' + pass)
BasicHeader(user, pass) == BasicOf(user \o <<58>> \o pass)

\* What requests to the config routes carry: no header or the right
\* credentials; a file that is absent, valid, empty or unknown; a content
\* that is absent or a document; commit absent or true.
RouteHeaders == {Undefined, BasicHeader(DefaultUser, DefaultPass)}
ContentInputs == {Undefined, Str(DocA), Str(DocB)}

\* The text the handlers store for each content: JSON.stringify of the
\* parsed body member (computed once per content).
Stringified == [c \in ContentInputs |-> JSONstringify(BodyContent(c))]

\* GET handler: what follows the local read.
ReadFallback(q, local, configured) ==
  IF local.ok THEN Respond(q, 200, [config |-> local.val])
  ELSE IF configured THEN [q EXCEPT !.pc = "ghRead"]
  ELSE Respond(q, 500, [error |-> local.error])

\* PUT handler: commitToGitHub threw.
CommitFailedStillWrites(q, error) == [q EXCEPT !.pc = "mkdir"]

CommitFailed(q, error) == Respond(q, 500, [error |-> error])

\* PUT handler: what follows writeToDisk (wrote: it did not throw). After a
\* commit a failure is ignored.
AfterLocalWriteNoSwallow(q, wrote, error) ==
  IF wrote THEN Respond(q, 200, [ok |-> TRUE, committed |-> q.commit])
  ELSE Respond(q, 500, [error |-> error])

AfterLocalWrite(q, wrote, error) ==
  IF q.commit THEN Respond(q, 200, [ok |-> TRUE, committed |-> TRUE])
  ELSE IF wrote THEN Respond(q, 200, [ok |-> TRUE, committed |-> FALSE])
  ELSE Respond(q, 500, [error |-> error])

\* The history of a key when the PUT of slot record q ends its local write:
\* a commit has answered 200, and every write to the key so far was such a
\* commit's, with its local write done.
Ended(h, q, wrote) ==
  [commits |-> h.commits \/ (q.commit /\ q.putOk),
   clean |-> h.clean /\ wrote /\ q.commit /\ q.putOk,
   raced |-> h.raced]

\* router.get('/auth/secret/config'), to its first await (readFile's open).
GetArrives(r, header, file) ==
  /\ Free(r)
  /\ started' = started + 1
  /\ LET q == [Idle EXCEPT !.method = "GET", !.file = file, !.id = started']
         key == QueryKey(file)
     IN req' = [req EXCEPT ![r] =
          IF authGuard(creds, header) = "401"
            THEN Respond([Idle EXCEPT !.method = "GET"], 401,
                         [error |-> "Unauthorized"])
          ELSE IF key \notin PAGE_KEYS
            THEN Respond(q, 400, [error |-> "Invalid config key"])
          ELSE [q EXCEPT !.pc = "readOpen", !.key = key,
                         !.seen = IF lastPut[key].done THEN lastPut[key]
                                  ELSE NoPut]]
  /\ UNCHANGED <<creds, ghConfigured, disk, remote, lastPut, hist, authIn, authOut>>

\* readFile: the open settles. Without a file to open readFromDisk throws,
\* and the handler goes to the remote store (readFromGitHub runs to its
\* fetch) or answers.
ReadOpen(r) ==
  /\ req[r].pc = "readOpen"
  /\ \E opened \in BOOLEAN :
       LET q == [req[r] EXCEPT !.ops = Append(@, "diskRead"), !.seen = NoPut]
       IN req' = [req EXCEPT ![r] =
            IF disk[q.key] = Missing
              THEN ReadFallback(q, [ok |-> FALSE, error |-> "ENOENT"], ghConfigured)
            ELSE IF ~opened
              THEN ReadFallback(q, [ok |-> FALSE, error |-> "EACCES"], ghConfigured)
            ELSE [req[r] EXCEPT !.pc = "readStat", !.ops = Append(@, "diskRead")]]
  /\ UNCHANGED <<creds, ghConfigured, disk, remote, started, lastPut, hist, authIn, authOut>>

\* readFile: fstat settles with the size of the file.
ReadStat(r) ==
  /\ req[r].pc = "readStat"
  /\ req' = [req EXCEPT ![r] =
       [@ EXCEPT !.pc = "readData", !.size = Len(disk[req[r].key].v)]]
  /\ UNCHANGED <<creds, ghConfigured, disk, remote, started, lastPut, hist, authIn, authOut>>

\* readFile: a read call takes its bytes. The call asks for length bytes
\* from the descriptor's offset on, and takes them from the file a page at a
\* time, each page as the file holds it at that instant, so that writes
\* that land meanwhile show in the pages taken after them. The call settles
\* when it has length bytes or has reached the end of the file, or when a
\* page cannot be read: with the bytes taken so far, or failed if there are
\* none. readFile stops at a read of no bytes, at the size fstat gave, and
\* (the size known) at a read of fewer bytes than asked for; it then closes
\* the file.
ReadData(r) ==
  /\ req[r].pc = "readData"
  /\ \E ioOk \in BOOLEAN :
       LET q == req[r]
           file == disk[q.key].v
           length == IF q.size = 0 THEN kReadFileUnknownBufferLength
                     ELSE Min({q.size, kReadFileBufferLength})
           at == Len(q.buf) + Len(q.part)
           upto == Min({Len(q.buf) + length,
                        (at \div kPageSize + 1) * kPageSize, Len(file)})
           bytes == IF ioOk THEN q.part \o SubSeq(file, at + 1, upto)
                    ELSE q.part
           totalRead == Len(q.buf) + Len(bytes)
       IN req' = [req EXCEPT ![r] =
            IF ~ioOk /\ q.part = <<>>
              THEN [q EXCEPT !.pc = "readClose", !.err = Str("EIO"),
                             !.held = disk[q.key]]
            ELSE IF ioOk /\ Len(bytes) < length /\ totalRead < Len(file)
              THEN [q EXCEPT !.part = bytes, !.held = disk[q.key]]
            ELSE [q EXCEPT !.buf = @ \o bytes, !.part = <<>>,
                           !.held = disk[q.key],
                           !.pc = IF \/ Len(bytes) = 0
                                     \/ totalRead = q.size
                                     \/ (Len(bytes) # length /\ q.size # 0)
                                  THEN "readClose" ELSE "readData"]]
  /\ UNCHANGED <<creds, ghConfigured, disk, remote, started, lastPut, hist, authIn, authOut>>

\* readFile: the close settles; readFile throws the read's error, or the
\* close's when the read went well, and readFromDisk parses what was read
\* or throws; the handler answers with the config, goes to the remote
\* store (readFromGitHub runs to its fetch) or answers with the error. The
\* read keeps the PUT it saw on arrival when that is still the file's last
\* write.
ReadClose(r) ==
  /\ req[r].pc = "readClose"
  /\ \E closed \in BOOLEAN :
       \E local \in {IF req[r].err # Undefined
                      THEN [ok |-> FALSE, error |-> req[r].err.v]
                    ELSE IF ~closed THEN [ok |-> FALSE, error |-> "EIO"]
                    ELSE readFromDisk(req[r].buf)} :
         req' = [req EXCEPT ![r] =
           ReadFallback([@ EXCEPT !.seen = IF local.ok /\ @ = lastPut[req[r].key]
                                           THEN @ ELSE NoPut],
                        local, ghConfigured)]
  /\ UNCHANGED <<creds, ghConfigured, disk, remote, started, lastPut, hist, authIn, authOut>>

\* readFromGitHub: the fetch settles.
GhRead(r) ==
  /\ req[r].pc = "ghRead"
  /\ \E net \in NetOutcomes :
       LET q == [req[r] EXCEPT !.ops = Append(@, "ghRead")]
           response == RemoteGet(remote[q.key], net = "ok")
           sent == readFromGitHub(ghConfigured, net, response)
       IN req' = [req EXCEPT ![r] =
            IF sent.ok THEN [q EXCEPT !.pc = "ghReadBody", !.resp = response]
            ELSE Respond(q, 500, [error |-> sent.error])]
  /\ UNCHANGED <<creds, ghConfigured, disk, remote, started, lastPut, hist, authIn, authOut>>

\* readFromGitHub: response.json() settles; the content is decoded and
\* parsed, and the handler answers.
GhReadBody(r) ==
  /\ req[r].pc = "ghReadBody"
  /\ \E bodyOk \in BOOLEAN :
       \E got \in {DecodeRemote(req[r].resp, bodyOk)} :
         req' = [req EXCEPT ![r] =
                   IF got.ok THEN Respond(@, 200, [config |-> got.val])
                   ELSE Respond(@, 500, [error |-> got.error])]
  /\ UNCHANGED <<creds, ghConfigured, disk, remote, started, lastPut, hist, authIn, authOut>>

\* Whether a commit to key k is in flight in a slot other than r.
OtherCommit(r, k) ==
  \E o \in Reqs \ {r} : InFlight(o) /\ req[o].method = "PUT" /\ req[o].commit
                        /\ req[o].key = k

\* router.put('/auth/secret/config'), to its first await.
PutArrives(r, header, body) ==
  /\ Free(r)
  /\ started' = started + 1
  /\ LET q == [Idle EXCEPT !.method = "PUT", !.file = body.file,
                           !.doc = body.content, !.id = started']
         parsed == updateSchema(body)
     IN IF authGuard(creds, header) = "401"
          THEN /\ req' = [req EXCEPT ![r] =
                    Respond([Idle EXCEPT !.method = "PUT"], 401,
                            [error |-> "Unauthorized"])]
               /\ hist' = hist
        ELSE IF ~parsed.ok
          THEN /\ req' = [req EXCEPT ![r] =
                    Respond(q, 400, [error |-> "ZodError", fields |-> parsed.fields])]
               /\ hist' = hist
        ELSE LET p == [q EXCEPT !.key = parsed.file, !.commit = parsed.commit]
             IN IF parsed.commit /\ ~ghConfigured
                  THEN /\ req' = [req EXCEPT ![r] =
                            CommitFailed(p, "GitHub environment variables missing")]
                       /\ hist' = hist
                ELSE IF parsed.commit
                  THEN /\ req' = [req EXCEPT ![r] = [p EXCEPT !.pc = "ghGet"]]
                       /\ hist' = [hist EXCEPT ![p.key].raced =
                                     @ \/ OtherCommit(r, p.key)]
                ELSE /\ req' = [req EXCEPT ![r] = [p EXCEPT !.pc = "mkdir"]]
                     /\ hist' = hist
  /\ UNCHANGED <<creds, ghConfigured, disk, remote, lastPut, authIn, authOut>>

\* commitToGitHub from the sha to the PUT's fetch: the body is built and
\* the PUT sent.
SendPut(q) ==
  LET p == [q EXCEPT !.sha = ShaOfGet(q.resp), !.resp = NoResponse]
  IN IF Stringified[q.doc] = Undefined THEN CommitFailed(p, "TypeError")
     ELSE [p EXCEPT !.pc = "ghPut", !.put = PutContent(Stringified[q.doc])]

\* commitToGitHub: the GET's fetch settles.
GhGet(r) ==
  /\ req[r].pc = "ghGet"
  /\ \E net \in NetOutcomes :
       LET f == remote[req[r].key]
           getResponse == RemoteGet(f, net = "ok")
           q == [req[r] EXCEPT !.ops = Append(@, "ghGet"),
                               !.resp = getResponse,
                               !.getFound = getResponse.ok,
                               !.getMarker = Marker(f)]
       IN req' = [req EXCEPT ![r] =
            IF net = "down"
              THEN CommitFailed([req[r] EXCEPT !.ops = Append(@, "ghGet")],
                                "fetch failed")
            ELSE IF getResponse.ok THEN [q EXCEPT !.pc = "ghGetBody"]
            ELSE SendPut(q)]
  /\ UNCHANGED <<creds, ghConfigured, disk, remote, started, lastPut, hist, authIn, authOut>>

\* commitToGitHub: getResponse.json() settles.
GhGetBody(r) ==
  /\ req[r].pc = "ghGetBody"
  /\ \E bodyOk \in BOOLEAN :
       req' = [req EXCEPT ![r] =
                 IF bodyOk THEN SendPut(@) ELSE CommitFailed(@, "terminated")]
  /\ UNCHANGED <<creds, ghConfigured, disk, remote, started, lastPut, hist, authIn, authOut>>

\* commitToGitHub: the PUT's fetch settles. The store applies a PUT that
\* reaches it with the current marker; the handler sees the answer, or no
\* answer at all ("lost": the PUT was carried out and its answer never came).
GhPut(r) ==
  /\ req[r].pc = "ghPut"
  /\ \E net \in NetOutcomes \cup {"lost"} :
       LET k == req[r].key
           q == [req[r] EXCEPT !.ops = Append(@, "ghPut"),
                               !.putMarker = Marker(remote[k])]
           applied == net \in {"ok", "lost"} /\ RemoteAccepts(remote[k], q.sha)
       IN /\ remote' = IF applied
                       THEN [remote EXCEPT ![k] = File(Base64Decode(q.put.v))]
                       ELSE remote
          /\ req' = [o \in Reqs |->
               IF o = r
                 THEN IF net \in {"down", "lost"} THEN CommitFailed(q, "fetch failed")
                      ELSE IF applied THEN [q EXCEPT !.pc = "mkdir", !.putOk = TRUE]
                      ELSE [q EXCEPT !.pc = "ghPutText"]
               ELSE IF applied /\ req[o].pc \in {"ghGetBody", "ghPut"}
                       /\ req[o].key = k
                 THEN [req[o] EXCEPT !.interfered = TRUE]
               ELSE req[o]]
          /\ hist' = [hist EXCEPT ![k].clean = @ /\ ~(applied /\ net = "lost")]
  /\ UNCHANGED <<creds, ghConfigured, disk, started, lastPut, authIn, authOut>>

\* commitToGitHub: putResponse.text() of a refused PUT settles.
GhPutText(r) ==
  /\ req[r].pc = "ghPutText"
  /\ \E bodyOk \in BOOLEAN :
       req' = [req EXCEPT ![r] =
                 CommitFailed(@, IF bodyOk THEN "GitHub commit failed"
                                 ELSE "terminated")]
  /\ UNCHANGED <<creds, ghConfigured, disk, remote, started, lastPut, hist, authIn, authOut>>

\* writeToDisk: ensureConfigDir settles; the text next is built and
\* writeFile called, which throws on undefined before it opens the file.
Mkdir(r) ==
  /\ req[r].pc = "mkdir"
  /\ \E made \in BOOLEAN, next \in {Stringified[req[r].doc]} :
       LET q == [req[r] EXCEPT !.ops = Append(@, "diskWrite")]
           failed == [q EXCEPT !.localWrite = "failed"]
       IN IF made /\ next # Undefined
            THEN /\ req' = [req EXCEPT ![r] = [q EXCEPT !.pc = "open", !.next = next]]
                 /\ hist' = hist
          ELSE /\ req' = [req EXCEPT ![r] =
                    AfterLocalWrite(failed, FALSE,
                                    IF made THEN "TypeError" ELSE "EACCES")]
               /\ hist' = [hist EXCEPT ![q.key] = Ended(@, q, FALSE)]
  /\ UNCHANGED <<creds, ghConfigured, disk, remote, started, lastPut, authIn, authOut>>

\* writeFile: the open settles: the file is there and empty, the
\* descriptor at its start.
Open(r) ==
  /\ req[r].pc = "open"
  /\ \E opened \in BOOLEAN :
       LET q == req[r]
           k == q.key
       IN IF opened
            THEN /\ disk' = [disk EXCEPT ![k] = File(<<>>)]
                 /\ lastPut' = [lastPut EXCEPT ![k] = NoPut]
                 /\ req' = [req EXCEPT ![r] = [q EXCEPT !.pc = "write"]]
                 /\ hist' = hist
          ELSE /\ disk' = disk
               /\ lastPut' = lastPut
               /\ req' = [req EXCEPT ![r] =
                    AfterLocalWrite([q EXCEPT !.localWrite = "failed"],
                                    FALSE, "EACCES")]
               /\ hist' = [hist EXCEPT ![k] = Ended(@, q, FALSE)]
  /\ UNCHANGED <<creds, ghConfigured, remote, started, authIn, authOut>>

\* writeFile: a write call settles. The call asks for the next bytes of
\* the text, at most kWriteFileMaxChunkSize of them, at the descriptor's
\* offset: all of them are in the file, or the first n of them only (a
\* short write: writeFile goes on with the rest in its next call), or the
\* call failed and wrote nothing. The text written or a call failed,
\* writeFile closes the file.
Write(r) ==
  /\ req[r].pc = "write"
  /\ \E error \in {Undefined, Str("EIO"), Str("EFBIG")} :
       LET q == req[r]
           k == q.key
           bytes == Utf8Encode(q.next.v)
           chunk == SubSeq(bytes, q.pos + 1,
                           Min({q.pos + kWriteFileMaxChunkSize, Len(bytes)}))
       IN IF error = Undefined
            THEN \E bytesWritten \in 1..Len(chunk) :
                   LET more == q.pos + bytesWritten < Len(bytes)
                   IN /\ disk' = DiskAfterWrite(disk, k, q.pos,
                                                SubSeq(chunk, 1, bytesWritten))
                      /\ lastPut' = [lastPut EXCEPT ![k] =
                           IF ~more /\ ~q.commit
                           THEN [doc |-> q.doc, id |-> q.id, done |-> FALSE]
                           ELSE NoPut]
                      /\ req' = [req EXCEPT ![r] =
                           [q EXCEPT !.pos = @ + bytesWritten,
                                     !.pc = IF more THEN "write" ELSE "close",
                                     !.localWrite = IF more THEN @ ELSE "written"]]
          ELSE /\ disk' = disk
               /\ lastPut' = lastPut
               /\ req' = [req EXCEPT ![r] =
                    [q EXCEPT !.pc = "close", !.localWrite = "failed",
                              !.err = error]]
  /\ UNCHANGED <<creds, ghConfigured, remote, started, hist, authIn, authOut>>

\* writeFile: the close settles; writeFile throws the write's error, or
\* the close's when the text was written, and the handler answers.
Close(r) ==
  /\ req[r].pc = "close"
  /\ \E closed \in BOOLEAN :
       LET k == req[r].key
           wrote == req[r].localWrite = "written" /\ closed
           q == [req[r] EXCEPT !.localWrite = IF wrote THEN @ ELSE "failed"]
       IN /\ lastPut' = [lastPut EXCEPT ![k] =
               IF @.id # q.id THEN @
               ELSE IF wrote THEN [@ EXCEPT !.done = TRUE] ELSE NoPut]
          /\ hist' = [hist EXCEPT ![k] = Ended(@, q, wrote)]
          /\ req' = [req EXCEPT ![r] =
               AfterLocalWrite(q, wrote, IF q.err # Undefined THEN q.err.v
                                         ELSE "EIO")]
  /\ UNCHANGED <<creds, ghConfigured, disk, remote, started, authIn, authOut>>

\* What the local store holds for every page at the start: no file, a file
\* that is not JSON, or document 7 as the handlers write it. The remote
\* store starts without files or with document 12 for every page.
Init ==
  /\ creds = ADMIN_CREDENTIALS(Undefined, Undefined, Undefined)
  /\ ghConfigured \in BOOLEAN
  /\ \E f \in {Missing, Corrupt, Stored(DocC)} : disk = [k \in PAGE_KEYS |-> f]
  /\ \E f \in {Missing, Stored(DocA)} :
       /\ remote = [k \in PAGE_KEYS |-> f]
       /\ ghConfigured \/ f = Missing
  /\ req = [r \in Reqs |-> Idle]
  /\ started = 0
  /\ lastPut = [k \in PAGE_KEYS |-> NoPut]
  /\ hist = [k \in PAGE_KEYS |-> [commits |-> FALSE, clean |-> TRUE, raced |-> FALSE]]
  /\ authIn = Undefined
  /\ authOut = "-"

Next ==
  \E r \in Reqs :
    \/ \E h \in RouteHeaders,
          f \in {Undefined, Key("contact"), Key(""), Key("bogus")} :
         GetArrives(r, h, f)
    \/ \E h \in RouteHeaders, f \in {Key("home"), Key("bogus")},
          c \in ContentInputs, k \in {Undefined, JBool(TRUE)} :
         PutArrives(r, h, [file |-> f, content |-> c, commit |-> k,
                           commitMessage |-> Undefined])
    \/ ReadOpen(r)
    \/ ReadStat(r)
    \/ ReadData(r)
    \/ ReadClose(r)
    \/ GhRead(r)
    \/ GhReadBody(r)
    \/ GhGet(r)
    \/ GhGetBody(r)
    \/ GhPut(r)
    \/ GhPutText(r)
    \/ Mkdir(r)
    \/ Open(r)
    \/ Write(r)
    \/ Close(r)

Spec == Init /\ [][Next]_vars

(***************************************************************************)
(* The auth guard on its own: every credential map against every header    *)
(***************************************************************************)
\* The text {"u":"p"} of an ADMIN_CREDENTIALS variable.
MapText(u, p) ==
  Str(S(<<"{", "\"">>) \o u \o S(<<"\"", ":", "\"">>) \o p \o S(<<"\"", "}">>))

\* The environments start-up can meet, as ADMIN_USERNAME, ADMIN_PASSWORD and
\* ADMIN_CREDENTIALS, and the maps it builds: the defaults; ADMIN_USERNAME/ADMIN_PASSWORD;
\* an empty ADMIN_USERNAME; an empty ADMIN_CREDENTIALS; ADMIN_CREDENTIALS
\* that is no JSON, no object, an object without string members or with the
\* member __proto__ alone; and ADMIN_CREDENTIALS maps, among them a password
\* with ':', an empty password, a username with ':' and one outside ASCII.
EnvChoices ==
  {<<Undefined, Undefined, Undefined>>,
   <<Str(S(<<"a">>)), Str(S(<<"p">>)), Undefined>>,
   <<Str(<<>>), Str(S(<<"p">>)), Undefined>>,
   <<Str(S(<<"b">>)), Undefined, Str(<<>>)>>,
   <<Str(S(<<"b">>)), Str(S(<<"q">>)), Str(S(<<"{", "\"", "a">>))>>,
   <<Str(S(<<"a">>)), Str(S(<<"q">>)), Str(S(<<"[", "]">>))>>,
   <<Str(S(<<"b">>)), Str(S(<<"p">>)), Str(S(<<"{", "\"", "a", "\"", ":", "1", "}">>))>>,
   <<Str(S(<<"a">>)), Str(S(<<"x">>)), MapText(ProtoKey, S(<<"p">>))>>,
   <<Undefined, Undefined, MapText(S(<<"a">>), S(<<"p", ":", "q">>))>>,
   <<Undefined, Undefined,
     Str(S(<<"{", "\"", "b", "\"", ":", "\"", "\"", ",", "\t",
             "\"", "a", "\"", ":", "\"", "p", "\"", "}">>))>>,
   <<Undefined, Undefined, MapText(S(<<"a", ":", "b">>), S(<<"p">>))>>,
   <<Undefined, Undefined, MapText(<<233>>, S(<<"p">>))>>}

CredentialChoices == {ADMIN_CREDENTIALS(e[1], e[2], e[3]) : e \in EnvChoices}

\* The headers tried: none, Basic of user:pass forms and of texts without a
\* colon, 'Basic' alone, another
\* scheme, a lower-case scheme, two spaces, and characters outside base64.
AuthHeaders ==
  {Undefined}
  \cup {BasicOf(x) : x \in
    {S(<<"a", ":", "p">>), S(<<"a", ":", "p", ":", "q">>), S(<<"a", ":", "q">>),
     S(<<"a", ":">>), S(<<"a">>), S(<<"b">>), S(<<"b", ":">>), S(<<"b", ":", "p">>),
     S(<<"x">>), S(<<"x", ":", "p">>), S(<<"a", ":", "b", ":", "p">>), S(<<":">>),
     S(<<"a","d","m","i","n",":","c","h","a","n","g","e","-","m","e">>),
     S(<<"a","d","m","i","n",":","p">>),
     S(<<"a","d","m","i","n">>),
     S(<<"c","o","n","s","t","r","u","c","t","o","r">>),
     ProtoKey \o S(<<":", "p">>),
     <<233>> \o S(<<":", "p">>)}}
  \cup {Str(S(<<"B","a","s","i","c">>)),
        Str(S(<<"B","e","a","r","e","r"," ">>) \o Base64Encode(S(<<"a", ":", "p">>))),
        Str(S(<<"b","a","s","i","c"," ">>) \o Base64Encode(S(<<"a", ":", "p">>))),
        Str(S(<<"B","a","s","i","c"," "," ">>) \o Base64Encode(S(<<"a", ":", "p">>))),
        Str(S(<<"B","a","s","i","c"," ","!","!","!","!">>)),
        Str(S(<<"B","a","s","i","c"," ","/","w","=","=">>))}

\* A request with this header meets the guard.
AuthCheck(header) ==
  /\ authIn' = header
  /\ authOut' = authGuard(creds, header)
  /\ UNCHANGED <<creds, ghConfigured, disk, remote, req, started, lastPut, hist>>

InitAuth ==
  /\ creds \in CredentialChoices
  /\ ghConfigured = FALSE
  /\ disk = [k \in PAGE_KEYS |-> Missing]
  /\ remote = [k \in PAGE_KEYS |-> Missing]
  /\ req = [r \in Reqs |-> Idle]
  /\ started = 0
  /\ lastPut = [k \in PAGE_KEYS |-> NoPut]
  /\ hist = [k \in PAGE_KEYS |-> [commits |-> FALSE, clean |-> TRUE, raced |-> FALSE]]
  /\ authIn = Undefined
  /\ authOut = "-"

NextAuth == \E h \in AuthHeaders : AuthCheck(h)

SpecAuth == InitAuth /\ [][NextAuth]_vars

(***************************************************************************)
(* Properties                                                              *)
(***************************************************************************)
Did(q, op) == \E i \in 1..Len(q.ops) : q.ops[i] = op

\* The guard let the request of slot record q through.
Passed(q) == q.method # "-" /\ ~(q.pc = "done" /\ q.status = 401)

\* The commit of slot record q was refused: it ends with 500 (once the
\* refusal's text is read) and writes nothing locally.
Refused(q) ==
  /\ ~q.putOk /\ q.localWrite = "-" /\ ~Did(q, "diskWrite")
  /\ q.pc = "ghPutText" \/ (q.pc = "done" /\ q.status = 500)

\* C1: the guard lets a request through only when its header is
\* 'Basic ' + base64(user:pass) for a user of the credentials and that
\* user's password; every other header is answered 401.
GuardAdmitsOnlyCredentials ==
  authOut = "next" =>
    \E u \in DOMAIN creds : authIn = BasicHeader(u, creds[u])

\* C9: for every pair of the credentials, the header
\* 'Basic ' + base64(username:password) is let through.
GuardAdmitsEveryPair ==
  \A u \in DOMAIN creds :
    authIn = BasicHeader(u, creds[u]) => authOut = "next"

\* C2: a request the guard let through whose page key is present and is not
\* one of the five keys (the empty string included) is answered 400 without
\* any store being read or written.
UnknownKeyRejected ==
  \A r \in Reqs :
    LET q == req[r]
    IN (Passed(q) /\ q.file # Undefined /\ q.file.v \notin PAGE_KEYS)
         => (q.pc = "done" /\ q.status = 400 /\ q.ops = <<>>)

\* C3: a PUT the guard let through whose body has no content is answered
\* 400 with no local write and no remote call.
MissingContentRejected ==
  \A r \in Reqs :
    LET q == req[r]
    IN (Passed(q) /\ q.method = "PUT" /\ q.doc = Undefined
        /\ q.file # Undefined /\ q.file.v \in PAGE_KEYS)
         => (q.pc = "done" /\ q.status = 400 /\ q.ops = <<>>)

\* C4: no step of a commit=true PUT whose remote write has not been
\* answered with success changes any local document, and when such a request
\* ends it ends with 500, having attempted no local write.
FailedCommitLeavesLocal ==
  [][\A r \in Reqs :
       (req'[r] # req[r] /\ req'[r].method = "PUT" /\ req'[r].commit
        /\ ~req'[r].putOk)
         => /\ disk' = disk
            /\ req'[r].pc \in {"ghGet", "ghGetBody", "ghPut", "ghPutText", "done"}
            /\ req'[r].pc = "done" =>
                 (req'[r].status = 500 /\ ~Did(req'[r], "diskWrite")
                  /\ req'[r].localWrite = "-")]_vars

\* C4 witness: a commit whose PUT was sent and refused has ended.
FailedCommitSeen ==
  \E r \in Reqs :
    /\ req[r].commit /\ req[r].pc = "done" /\ ~req[r].putOk
    /\ Did(req[r], "ghPut") /\ req[r].status = 500
    /\ req[r].body = [error |-> "GitHub commit failed"]

\* A read whose readFromDisk has settled and which is now q, d being the
\* local document and errors what a failed local read may throw: 200 with d
\* and nothing else done; or sent to the remote store, the remote being
\* configured; or ended with 500 and the local error, the remote not being
\* configured.
LocalReadRule(q, d, errors) ==
  /\ (q.pc = "done" /\ q.status = 200) =>
       (d.ok /\ q.body = [config |-> d.val] /\ q.ops = <<"diskRead">>)
  /\ q.pc # "done" => (q.pc = "ghRead" /\ ghConfigured)
  /\ (q.pc = "done" /\ q.status # 200) =>
       (~ghConfigured /\ q.status = 500 /\ q.ops = <<"diskRead">>
        /\ q.body.error \in errors)

\* A read that has the answer of the remote store, which answered with
\* document d, and is now q: ended, with 200 and d or with 500.
RemoteReadRule(q, d) ==
  /\ q.pc = "done" /\ q.ops = <<"diskRead", "ghRead">>
  /\ \/ q.status = 200 /\ d.ok /\ q.body = [config |-> d.val]
     \/ q.status = 500 /\ q.body.error \in {"SyntaxError", "terminated"}

\* C5: a read that answers 200 after the local read alone returns the local
\* document (the one the file holds when the read takes its bytes); a local
\* file that is missing or corrupt sends the read to the remote store when
\* the remote is configured, and otherwise ends it with 500 and the local
\* error; a read sent to the remote store is not sent anywhere else: it
\* ends with 200 and the document the remote store answered with, or with
\* 500 and the remote error.
ReadFallbackRule ==
  [][\A r \in Reqs :
       LET q == req'[r]
       IN /\ (req[r].pc = "readOpen" /\ q.pc # "readOpen" /\ q.pc # "readStat") =>
               LocalReadRule(q, [ok |-> FALSE],
                             IF disk[req[r].key] = Missing THEN {"ENOENT"}
                             ELSE {"EACCES"})
          /\ (req[r].pc = "readClose" /\ q # req[r]) =>
               LocalReadRule(q, DocOf(req[r].held), {"SyntaxError", "EIO"})
          /\ (req[r].pc = "ghRead" /\ q # req[r]) =>
               /\ q.ops = <<"diskRead", "ghRead">>
               /\ \/ /\ q.pc = "ghReadBody" /\ remote[req[r].key] # Missing
                     /\ Base64Decode(q.resp.content) = remote[req[r].key].v
                  \/ /\ q.pc = "done" /\ q.status = 500
                     /\ q.body.error \in {"GitHub read failed", "fetch failed"}
          /\ (req[r].pc = "ghReadBody" /\ q # req[r]) =>
               RemoteReadRule(q, DocOf(File(Base64Decode(req[r].resp.content))))]_vars

\* C6: a GET that arrives after a successful commit=false PUT of document D
\* and reads, without fallback, the file that PUT wrote, no other write
\* having come in between, answers 200 with a config deep-equal to D.
RoundTrip ==
  \A r \in Reqs :
    LET q == req[r]
    IN (q.method = "GET" /\ q.pc = "done" /\ q.ops = <<"diskRead">>
        /\ q.seen # NoPut)
         => /\ q.status = 200
            /\ DeepEqual(q.body.config, JSONparse(q.seen.doc.v).val)

\* C7: a commit=true PUT performs remote GET, remote PUT, local write in
\* that order, and once its remote PUT has been answered with success it
\* goes on to the local write and answers 200 {ok, committed: true},
\* however that write ends.
CommitOrder ==
  \A r \in Reqs :
    LET q == req[r]
    IN (q.method = "PUT" /\ q.commit) =>
         /\ Len(q.ops) <= 3 /\ q.ops = SubSeq(<<"ghGet", "ghPut", "diskWrite">>, 1, Len(q.ops))
         /\ q.putOk =>
              \/ q.pc = "mkdir" /\ Len(q.ops) = 2
              \/ q.pc \in {"open", "write", "close"} /\ Len(q.ops) = 3
              \/ /\ q.pc = "done" /\ Len(q.ops) = 3 /\ q.status = 200
                 /\ q.body = [ok |-> TRUE, committed |-> TRUE]

\* C7 witness: a commit answered 200 although its local write failed.
SwallowedWriteSeen ==
  \E r \in Reqs :
    /\ req[r].commit /\ req[r].pc = "done" /\ req[r].putOk
    /\ req[r].localWrite = "failed" /\ req[r].status = 200

\* C8 as stated: when another commit to the same key succeeds between a
\* commit's GET and its PUT, the PUT is rejected, the request ends with 500
\* and writes nothing locally.
InterferedCommitRejected ==
  \A r \in Reqs :
    LET q == req[r]
    IN (q.commit /\ q.interfered /\ Did(q, "ghPut")) => Refused(q)

\* C8 as amended: a commit's PUT carries the marker its own GET returned
\* (none when the GET found no file), and when the remote's marker at the
\* PUT differs from it, the PUT is rejected, the request ends with 500 and
\* writes nothing locally.
MarkerGuard ==
  \A r \in Reqs :
    LET q == req[r]
    IN (q.commit /\ (q.pc = "ghPut" \/ Did(q, "ghPut"))) =>
         /\ q.sha = (IF q.getFound THEN q.getMarker ELSE Undefined)
         /\ (Did(q, "ghPut") /\ q.putMarker # q.sha) => Refused(q)

\* C8 witness: a commit found the marker changed by another commit and was
\* rejected.
StaleCommitRejectedSeen ==
  \E r \in Reqs :
    /\ req[r].commit /\ req[r].interfered /\ req[r].getFound
    /\ Did(req[r], "ghPut") /\ req[r].putMarker # req[r].sha
    /\ req[r].pc = "done" /\ req[r].status = 500

\* C10 as stated: when every write to a key was made by a commit=true PUT
\* that answered 200 and whose local write did not fail, the local and the
\* remote document of the key are equal whenever no request is in flight.
CacheAgrees ==
  \A k \in PAGE_KEYS :
    ((\A r \in Reqs : ~InFlight(r)) /\ hist[k].commits /\ hist[k].clean)
      => DocOf(disk[k]) = DocOf(remote[k])

\* C10 as amended: the same, for a key no two commits to which were in
\* flight together.
CacheAgreesUnraced ==
  \A k \in PAGE_KEYS :
    ((\A r \in Reqs : ~InFlight(r)) /\ hist[k].commits /\ hist[k].clean /\ ~hist[k].raced)
      => DocOf(disk[k]) = DocOf(remote[k])

\* C10 witness: a commit of document 1e999 to home has ended, no other
\* commit to home having been in flight with it.
SequentialCommitsSeen ==
  /\ (\A r \in Reqs : ~InFlight(r)) /\ hist["home"].commits /\ hist["home"].clean
  /\ ~hist["home"].raced /\ disk["home"] = Stored(DocB)

====
